---- MODULE Spec2Model ----
(***************************************************************************)
(* ogdc-runner: recipe compilation and execution lifecycle.                *)
(*                                                                         *)
(* The module models                                                       *)
(*   - create_partitions (partitioning.py) as an operator,                 *)
(*   - the shell workflow compiler (workflow/shell.py, inputs.py,          *)
(*     publish.py) as operators producing a task graph,                    *)
(*   - submit_ogdc_recipe (api.py) with data_already_published             *)
(*     (publish.py) and submit_workflow / wait_for_workflow_completion     *)
(*     (argo.py) as a state machine talking to the Argo engine and the     *)
(*     shared volume.                                                      *)
(***************************************************************************)
EXTENDS Integers, Sequences, FiniteSets, TLC

\* ------------------------------------------------------------------ bounds
\* longest file list handed to create_partitions
MaxFiles == 4
\* largest num_files_per_partition tried (0 and -1 are tried as well)
MaxSize == 3
\* most input parameters of a compiled recipe
MaxInputs == 3
\* most lines of a compiled recipe's recipe.sh
MaxLines == 3
\* most status polls of one wait loop
MaxPolls == 3
\* most calls of create_partitions on the same arguments
MaxCalls == 2
\* most commands of a recipe whose graph is executed
MaxRunCommands == 2
\* most characters of a recipe name
MaxNameLen == 3
\* most characters of the recipe id and of the suffix of a generate_name
MaxIdLen == 60
MaxSuffixLen == 24

\* ------------------------------------------------------------ small helpers
Min(a, b) == IF a < b THEN a ELSE b

\* a slice that ends one element early
SliceOneShort(s, a, b) == SubSeq(s, a + 1, Min(b - 1, Len(s)))

\* Python's s[a:b] for 0 <= a, on a 1-based TLA+ sequence
Slice(s, a, b) == SubSeq(s, a + 1, Min(b, Len(s)))

\* Python's list(range(0, stop, step)) for step >= 1
RECURSIVE RangeFrom(_, _, _)
RangeFrom(i, stop, step) ==
    IF i >= stop THEN << >> ELSE << i >> \o RangeFrom(i + step, stop, step)

\* a range that stops at the last full step
Range0DropsRemainder(stop, step) == RangeFrom(0, stop - (stop % step), step)

Range0(stop, step) == RangeFrom(0, stop, step)

\* all sequences over S of length lo..hi
SeqsOf(S, lo, hi) == UNION { [1..n -> S] : n \in lo..hi }

\* ------------------------------------------------------- create_partitions
FileNames == {"a", "b", "c"}

\* ExecutionFunction(name=f"cmd-{idx}"): the name is kept as its two parts
CmdName(idx) == << "cmd", idx >>

NoFunction == [present |-> FALSE, name |-> << >>]

ExecFunction(idx) == [present |-> TRUE, name |-> CmdName(idx)]

\* a ParallelConfig carrying num_files_per_partition, or None
NoConfig == [present |-> FALSE, num_files_per_partition |-> 1]

Config(n) == [present |-> TRUE, num_files_per_partition |-> n]

\* parallel_config.num_files_per_partition if parallel_config else 1
ConfiguredNumFiles(config) ==
    IF config.present THEN config.num_files_per_partition ELSE 1

\* a clamp that replaces an invalid size by 2
ClampNumFilesToTwo(n) == IF n < 1 THEN 2 ELSE n

\* if num_files < 1: num_files = 1
ClampNumFiles(n) == IF n < 1 THEN 1 ELSE n

\* the loop over enumerate(range(0, len(files), num_files))
MakeChunks(files, num_files, func_name) ==
    LET starts == Range0(Len(files), num_files)
    IN  [p \in 1..Len(starts) |->
            LET chunk == Slice(files, starts[p], starts[p] + num_files)
            IN  [partition_id |-> p - 1,
                 files |-> chunk,
                 execution_function |-> func_name,
                 num_files |-> Len(chunk)]]

PartitionError(kind) == [ok |-> FALSE, error |-> kind, partitions |-> << >>]

\* create_partitions. source is "artifact" when artifact_path is given (files is
\* then the listing that _discover_files_from_artifact produced) and "inputs"
\* otherwise (files is the list of input values, empty for [] and for None).
create_partitions(source, files, execution_function, parallel_config) ==
    IF ~execution_function.present THEN PartitionError("ValueError")
    ELSE IF source # "artifact" /\ files = << >> THEN PartitionError("ValueError")
    ELSE [ok |-> TRUE, error |-> "",
          partitions |-> MakeChunks(files,
                                    ClampNumFiles(ConfiguredNumFiles(parallel_config)),
                                    execution_function.name)]

\* ------------------------------------------------------------ recipe model
InputTypes == {"url", "pvc_mount", "file_system"}

OutputTypes == {"pvc", "temporary", "dataone"}

WorkflowTypes == {"shell", "visualization"}

\* lines a recipe.sh may hold: blank, comment, and two different commands
CommentLines == {"# comment"}

ShLines == {"", "cp", "gzip"} \cup CommentLines

\* RecipeConfig.id: all modelled recipes share one id, so one destination
RecipeId == "recipe"

\* input parameter number i of a recipe: its value is named by its position
InputParam(type, i) == [type |-> type, value |-> i]

InputLists(lo, hi) ==
    { [i \in 1..Len(types) |-> InputParam(types[i], i)] :
        types \in SeqsOf(InputTypes, lo, hi) }

\* ShellWorkflow.get_commands_from_sh_file
NotBlankNorComment(line) == line # "" /\ line \notin CommentLines

NotBlank(line) == line # ""

\* a reader that drops blank lines only
get_commands_keeping_comments(sh_lines) == SelectSeq(sh_lines, NotBlank)

get_commands_from_sh_file(sh_lines) == SelectSeq(sh_lines, NotBlankNorComment)

\* _extract_files_from_inputs: str(param.value) of every parameter, in order
extract_files_from_inputs(params) == [i \in 1..Len(params) |-> params[i].value]

\* --------------------------------------------------------- fetch / publish
NoName == [base |-> "", idx |-> 0 - 1, pid |-> 0 - 1]

Name(base, idx, pid) == [base |-> base, idx |-> idx, pid |-> pid]

\* _get_output_directory
get_output_directory(recipe_id, use_pvc) ==
    IF use_pvc THEN << "/mnt/workflow", recipe_id, "inputs" >> ELSE << "/output_dir" >>

\* _build_url_fetch_command
build_url_fetch_command(url, output_dir) ==
    [tool |-> "wget", source |-> url, dir |-> output_dir]

\* a builder that passes over the parameters it cannot fetch
RECURSIVE build_fetch_commands_skipping(_, _, _, _)
build_fetch_commands_skipping(params, i, output_dir, commands) ==
    IF i > Len(params) THEN [ok |-> TRUE, error |-> "", commands |-> commands]
    ELSE IF params[i].type = "url"
    THEN build_fetch_commands_skipping(params, i + 1, output_dir,
             Append(commands, [tool |-> "wget", source |-> params[i].value,
                               dir |-> output_dir]))
    ELSE build_fetch_commands_skipping(params, i + 1, output_dir, commands)

\* _build_fetch_commands: the loop stops at the first parameter that is no url
RECURSIVE build_fetch_commands_from(_, _, _, _)
build_fetch_commands_from(params, i, output_dir, commands) ==
    IF i > Len(params) THEN [ok |-> TRUE, error |-> "", commands |-> commands]
    ELSE IF params[i].type = "url"
    THEN build_fetch_commands_from(params, i + 1, output_dir,
             Append(commands, build_url_fetch_command(params[i].value, output_dir)))
    ELSE IF params[i].type = "pvc_mount"
    THEN [ok |-> FALSE, error |-> "NotImplementedError", commands |-> << >>]
    ELSE [ok |-> FALSE, error |-> "OgdcWorkflowExecutionError", commands |-> << >>]

build_fetch_commands(params, output_dir) ==
    build_fetch_commands_from(params, 1, output_dir, << >>)

\* make_fetch_input_template
make_fetch_input_template(recipe, use_pvc) ==
    LET output_dir == get_output_directory(recipe.id, use_pvc)
        built == build_fetch_commands(recipe.inputs, output_dir)
    IN  [ok |-> built.ok, error |-> built.error,
         kind |-> "fetch", commands |-> built.commands,
         output_artifact |-> ~use_pvc, pvc_mount |-> use_pvc]

\* make_publish_template
make_publish_template(recipe) ==
    IF recipe.output = "pvc"
    THEN [ok |-> TRUE, error |-> "", kind |-> "publish-pvc", sub_path |-> recipe.id]
    ELSE IF recipe.output = "temporary"
    THEN [ok |-> TRUE, error |-> "", kind |-> "publish-zip", sub_path |-> ""]
    ELSE [ok |-> FALSE, error |-> "NotImplementedError", kind |-> "", sub_path |-> ""]

\* ------------------------------------------------------------ task graphs
NoGraph == [ok |-> FALSE, error |-> "", mode |-> "none", tasks |-> << >>, deps |-> {}]

GraphError(kind) ==
    [ok |-> FALSE, error |-> kind, mode |-> "none", tasks |-> << >>, deps |-> {}]

\* make_cmd_template(name=f"run-cmd-{idx}", command=command)
make_cmd_template(idx, command) ==
    [kind |-> "cmd", template |-> Name("run-cmd", idx, 0 - 1), command |-> command]

\* a step of the Steps context: its template, and the step whose output-dir
\* artifact it takes as input-dir
Step(name, stage, kind, command, input_from) ==
    [name |-> name, stage |-> stage, kind |-> kind, command |-> command,
     input_from |-> input_from, args |-> << >>]

\* the for loop of _create_sequential_workflow: step = cmd_template(name=
\* f"step-{idx}", arguments=step.get_artifact("output-dir")...)
RECURSIVE sequential_steps_from(_, _, _, _)
sequential_steps_from(commands, idx, step, steps) ==
    IF idx >= Len(commands) THEN [last |-> step, steps |-> steps]
    ELSE LET tmpl == make_cmd_template(idx, commands[idx + 1])
             next == Step(Name("step", idx, 0 - 1), Len(steps), tmpl.kind,
                          tmpl.command, step.name)
         IN  sequential_steps_from(commands, idx + 1, next, Append(steps, next))

\* consecutive steps of a Steps template run one after the other
StepsOrder(steps) == { << steps[i].name, steps[i + 1].name >> : i \in 1..(Len(steps) - 1) }

\* _create_sequential_workflow
create_sequential_workflow(recipe, commands) ==
    LET fetch_template == make_fetch_input_template(recipe, FALSE)
        publish_template == make_publish_template(recipe)
    IN  IF ~fetch_template.ok THEN GraphError(fetch_template.error)
        ELSE IF ~publish_template.ok THEN GraphError(publish_template.error)
        ELSE LET first == Step(Name("fetch", 0 - 1, 0 - 1), 0, "fetch", "", NoName)
                 body == sequential_steps_from(commands, 0, first, << first >>)
                 publish == Step(Name("publish-data", 0 - 1, 0 - 1), Len(body.steps),
                                 publish_template.kind, "", body.last.name)
                 steps == Append(body.steps, publish)
             IN  [ok |-> TRUE, error |-> "", mode |-> "steps",
                  tasks |-> steps, deps |-> StepsOrder(steps)]

\* func_name.split("-")[-1] of the name "cmd-{idx}"
cmd_index_of(func_name) == func_name[Len(func_name)]

\* a task that is always given the command index 0
create_partition_task_index_zero(partition, func_name, cmd_index, recipe, command) ==
    [name |-> Name(func_name[1], func_name[2], partition.partition_id),
     stage |-> func_name[2] + 1, kind |-> "partition", command |-> command,
     input_from |-> NoName,
     args |-> << partition.files, recipe.id, partition.partition_id, 0 >>]

\* ShellParallelExecutionOrchestrator._create_partition_task
create_partition_task(partition, func_name, cmd_index, recipe, command) ==
    [name |-> Name(func_name[1], func_name[2], partition.partition_id),
     stage |-> func_name[2] + 1, kind |-> "partition", command |-> command,
     input_from |-> NoName,
     args |-> << partition.files, recipe.id, partition.partition_id, cmd_index >>]

\* ShellParallelExecutionOrchestrator._create_tasks_from_partitions
create_tasks_from_partitions(partitions, func_name, recipe, command) ==
    [p \in 1..Len(partitions) |->
        create_partition_task(partitions[p], func_name, cmd_index_of(func_name),
                              recipe, command)]

\* an orchestrator that forgets the recipe's parallel configuration
orchestrator_create_partitions_no_config(recipe, execution_function) ==
    create_partitions("inputs", extract_files_from_inputs(recipe.inputs),
                      execution_function, NoConfig)

\* ParallelExecutionOrchestrator._create_partitions (no artifact path)
orchestrator_create_partitions(recipe, execution_function) ==
    create_partitions("inputs", extract_files_from_inputs(recipe.inputs),
                      execution_function, recipe.parallel_config)

\* ParallelExecutionOrchestrator.create_parallel_tasks for the command idx
create_parallel_tasks(recipe, idx, command) ==
    LET execution_function == ExecFunction(idx)
        made == orchestrator_create_partitions(recipe, execution_function)
    IN  [ok |-> made.ok, error |-> made.error,
         tasks |-> create_tasks_from_partitions(made.partitions,
                       execution_function.name, recipe, command)]

TaskNames(tasks) == { tasks[i].name : i \in 1..Len(tasks) }

\* previous and parallel tasks connected position by position
ConnectPairwise(previous_tasks, parallel_tasks) ==
    { << previous_tasks[i].name, parallel_tasks[i].name >> :
        i \in 1..Min(Len(previous_tasks), Len(parallel_tasks)) }

\* only the first previous task connected to the parallel tasks
ConnectFirstOnly(previous_tasks, parallel_tasks) ==
    { << previous_tasks[1].name, t >> : t \in TaskNames(parallel_tasks) }

\* prev_task >> parallel_task for every pair
Connect(previous_tasks, parallel_tasks) ==
    { << p, t >> : p \in TaskNames(previous_tasks), t \in TaskNames(parallel_tasks) }

\* _build_parallel_task_dependencies: the loop over the orchestrators
RECURSIVE build_parallel_task_dependencies(_, _, _, _, _, _)
build_parallel_task_dependencies(recipe, commands, idx, previous_tasks, tasks, deps) ==
    IF idx >= Len(commands)
    THEN [ok |-> TRUE, error |-> "", mode |-> "dag", tasks |-> tasks, deps |-> deps]
    ELSE LET made == create_parallel_tasks(recipe, idx, commands[idx + 1])
         IN  IF ~made.ok THEN GraphError(made.error)
             ELSE build_parallel_task_dependencies(recipe, commands, idx + 1,
                      made.tasks, tasks \o made.tasks,
                      deps \cup Connect(previous_tasks, made.tasks))

\* _create_parallel_workflow
create_parallel_workflow(recipe, commands) ==
    LET fetch_template == make_fetch_input_template(recipe, TRUE)
    IN  IF ~fetch_template.ok THEN GraphError(fetch_template.error)
        ELSE LET fetch_task == [name |-> Name("fetch", 0 - 1, 0 - 1), stage |-> 0,
                                kind |-> "fetch", command |-> "",
                                input_from |-> NoName, args |-> << >>]
             IN  build_parallel_task_dependencies(recipe, commands, 0,
                     << fetch_task >>, << fetch_task >>, {})

\* the body of make_and_submit_shell_workflow up to the submit
compile_shell_workflow(recipe) ==
    LET commands == get_commands_from_sh_file(recipe.sh_lines)
    IN  IF recipe.parallel_enabled
        THEN create_parallel_workflow(recipe, commands)
        ELSE create_sequential_workflow(recipe, commands)

\* the visualization workflow: only a url first input is supported
compile_viz_workflow(recipe) ==
    IF recipe.inputs[1].type # "url" THEN GraphError("NotImplementedError")
    ELSE [ok |-> TRUE, error |-> "", mode |-> "viz", tasks |-> << >>, deps |-> {}]

\* the dispatch of submit_ogdc_recipe on recipe_config.workflow.type
compile_recipe(recipe) ==
    IF recipe.wtype = "visualization" THEN compile_viz_workflow(recipe)
    ELSE compile_shell_workflow(recipe)

\* ----------------------------------------------------------------- recipes
Recipe(inputs, sh_lines, enabled, size, output, wtype) ==
    [id |-> RecipeId, inputs |-> inputs, sh_lines |-> sh_lines,
     parallel_enabled |-> enabled, parallel_config |-> Config(size),
     output |-> output, wtype |-> wtype]

\* the shell recipes the compiler is run on
CompileRecipes ==
    { Recipe(inputs, sh_lines, enabled, size, output, "shell") :
        inputs \in InputLists(1, MaxInputs),
        sh_lines \in SeqsOf(ShLines, 0, MaxLines),
        enabled \in BOOLEAN,
        size \in 0..MaxSize,
        output \in OutputTypes }

\* the recipes submit_ogdc_recipe is run on: one input, at most one command
SubmitRecipes ==
    { Recipe(inputs, sh_lines, enabled, 1, output, wtype) :
        inputs \in InputLists(1, 1),
        sh_lines \in { << >>, << "cp" >> },
        enabled \in BOOLEAN,
        output \in OutputTypes,
        wtype \in WorkflowTypes }

\* the shell recipes whose workflow is compiled and submitted: any inputs
MainRecipes ==
    { Recipe(inputs, sh_lines, enabled, 1, output, "shell") :
        inputs \in InputLists(1, MaxInputs),
        sh_lines \in { << >>, << "cp" >> },
        enabled \in BOOLEAN,
        output \in OutputTypes }

\* the shell recipes whose graph is executed: url inputs, a supported output
RunRecipes ==
    { Recipe(inputs, sh_lines, enabled, size, output, "shell") :
        inputs \in { l \in InputLists(1, MaxInputs) : \A i \in DOMAIN l : l[i].type = "url" },
        sh_lines \in SeqsOf({"cp", "gzip"}, 0, MaxRunCommands),
        enabled \in BOOLEAN,
        size \in 1..MaxSize,
        output \in {"pvc", "temporary"} }

\* _discover_files_from_artifact: the relative paths of the files under the
\* artifact directory, in the order os.walk yields them, which is the order the
\* file system lists the directory in; an empty or missing directory gives []
Listings(dir) ==
    { l \in [1..Cardinality(dir) -> dir] : \A f \in dir : \E i \in DOMAIN l : l[i] = f }

ParallelConfigs == {NoConfig} \cup { Config(n) : n \in (0 - 1)..MaxSize }

\* the arguments create_partitions is run on: files is the list of input
\* values, or the listing discovered under artifact_path
PartitionArgs ==
    { a \in [source : {"inputs", "artifact"},
             files : SeqsOf(FileNames, 0, MaxFiles),
             execution_function : {NoFunction, ExecFunction(0)},
             parallel_config : ParallelConfigs] :
        a.source = "artifact" => \E dir \in SUBSET FileNames : a.files \in Listings(dir) }

\* the arguments create_partitions is called on repeatedly: a list of inputs,
\* or an artifact directory holding the files dir
RepeatArgs ==
    { a \in [source : {"inputs", "artifact"},
             files : SeqsOf(FileNames, 0, MaxInputs),
             dir : SUBSET FileNames,
             execution_function : {ExecFunction(0)},
             parallel_config : ParallelConfigs] :
        IF a.source = "artifact" THEN a.files = << >> ELSE a.dir = {} }

\* ------------------------------------------------------------------ state
Callers == {1, 2}

Kinds == {"remove", "check", "main"}

\* workflow.status.phase as get_workflow_status returns it; "None" is an unset
\* phase, "Error" stands for any status string the wait loop does not know
Phases == {"None", "Pending", "Running", "Succeeded", "Failed", "Error"}

Terminal == {"Succeeded", "Failed"}

\* phases the engine never leaves
Final == {"Succeeded", "Failed", "Error"}

PhaseRank(p) ==
    CASE p = "None" -> 0
      [] p = "Pending" -> 1
      [] p = "Running" -> 2
      [] OTHER -> 3

\* what lies under the recipe-id-scoped subpath of the shared volume
PvcItems == {"published", "work"}

Absent == [exists |-> FALSE, items |-> {}]

PvcStates == {Absent} \cup { [exists |-> TRUE, items |-> i] : i \in SUBSET PvcItems }

VARIABLES
    active,     \* the callers that run submit_ogdc_recipe
    recipe,     \* the RecipeConfig the call is made for
    args,       \* per caller: overwrite and wait
    pc,         \* per caller: where in submit_ogdc_recipe it stands
    cur,        \* per caller: the workflow submit_workflow is handling
    wfname,     \* per caller: workflow.name of that workflow, 0 for None
    polled,     \* per caller: statuses the current wait loop has read
    result,     \* per caller: what data_already_published returned
    err,        \* per caller: the exception raised, "" for none
    graph,      \* per caller: the compiled task graph
    creates,    \* per caller and kind: create calls made
    pvc0,       \* per caller: the destination as it was when the call began
    wfs,        \* the engine's workflows, by name
    pvc,        \* the destination on the shared volume
    pin,        \* arguments of a create_partitions call
    pout,       \* what that call returned
    nodes,      \* the tasks of the compiled graph the engine started and ended
    meta,       \* a RecipeConfig being loaded: its name, its state, its cached id
    gen         \* a make_generate_name call: its arguments and what it returned

vars == << active, recipe, args, pc, cur, wfname, polled, result, err, graph,
           creates, pvc0, wfs, pvc, pin, pout, nodes, meta, gen >>

caller_vars == << args, pc, cur, wfname, polled, result, err, graph, creates, pvc0 >>

\* no task of the graph has been started
NoNodes == [started |-> {}, succeeded |-> {}, failed |-> {}]

\* no RecipeConfig is being loaded
NoMeta == [name |-> << >>, state |-> "none", id |-> << "unset" >>]

\* no make_generate_name call is made
NoCall == [recipe_id |-> << >>, suffix |-> << >>, out |-> << "not called" >>]

IdleArgs ==
    [source |-> "inputs", files |-> << >>, execution_function |-> NoFunction,
     parallel_config |-> NoConfig]

NoError == [kind |-> "", msg |-> "", wf |-> 0]

NotRun == [ok |-> FALSE, error |-> "not run", partitions |-> << >>]

IdleCallers ==
    /\ pc = [c \in Callers |-> "idle"]
    /\ cur = [c \in Callers |-> "none"]
    /\ wfname = [c \in Callers |-> 0]
    /\ polled = [c \in Callers |-> << >>]
    /\ result = [c \in Callers |-> "unset"]
    /\ err = [c \in Callers |-> NoError]
    /\ graph = [c \in Callers |-> NoGraph]
    /\ creates = [c \in Callers |-> [k \in Kinds |-> 0]]

\* one call of submit_ogdc_recipe, for any recipe, arguments and destination
Init ==
    /\ active = {1}
    /\ recipe \in SubmitRecipes
    /\ args \in [Callers -> [overwrite : BOOLEAN, wait : BOOLEAN]]
    /\ args[2] = args[1]
    /\ IdleCallers
    /\ pvc \in PvcStates
    /\ pvc0 = [c \in Callers |-> pvc]
    /\ wfs = << >>
    /\ pin = IdleArgs
    /\ pout = NotRun
    /\ nodes = NoNodes
    /\ meta = NoMeta
    /\ gen = NoCall

\* an exception leaves submit_ogdc_recipe: its type, its message, and the
\* workflow name the message holds (0 for none)
Raise(c, kind, msg, wf) ==
    /\ pc' = [pc EXCEPT ![c] = "raised"]
    /\ err' = [err EXCEPT ![c] = [kind |-> kind, msg |-> msg, wf |-> wf]]

\* generate_name=make_generate_name(recipe_config.id, "-...-") in publish.py
\* passes its arguments by position: the make_generate_name of argo.py takes
\* keyword arguments only and raises TypeError on that call, a two-argument
\* make_generate_name returns the name
GenerateNameOutcomes == {"name", "TypeError"}

\* a check that runs the scratch execution whatever the output kind
StartChecksEveryOutput(c) ==
    /\ pc[c] = "idle"
    /\ pvc0' = [pvc0 EXCEPT ![c] = pvc]
    /\ cur' = [cur EXCEPT ![c] = IF args[c].overwrite THEN "remove" ELSE "check"]
    /\ pc' = [pc EXCEPT ![c] = "create"]
    /\ UNCHANGED << active, recipe, args, wfname, polled, result, err, graph, creates,
                    wfs, pvc, pin, pout, nodes, meta, gen >>

\* data_already_published up to the first engine call
Start(c) ==
    /\ pc[c] = "idle"
    /\ pvc0' = [pvc0 EXCEPT ![c] = pvc]
    /\ IF args[c].overwrite \/ recipe.output = "pvc"
       THEN \E o \in GenerateNameOutcomes :
               IF o = "name"
               THEN /\ cur' = [cur EXCEPT ![c] = IF args[c].overwrite THEN "remove"
                                                  ELSE "check"]
                    /\ pc' = [pc EXCEPT ![c] = "create"]
                    /\ UNCHANGED << result, err >>
               ELSE /\ Raise(c, "TypeError", "make_generate_name() takes 0 positional arguments", 0)
                    /\ UNCHANGED << cur, result >>
       ELSE IF recipe.output = "temporary"
       THEN /\ result' = [result EXCEPT ![c] = "false"]
            /\ pc' = [pc EXCEPT ![c] = "decide"]
            /\ UNCHANGED << cur, err >>
       ELSE /\ Raise(c, "NotImplementedError", "output type is not supported", 0)
            /\ UNCHANGED << cur, result >>
    /\ UNCHANGED << active, recipe, args, wfname, polled, graph, creates, wfs, pvc,
                    pin, pout, nodes, meta, gen >>

\* a submit that waits whatever it was asked
WaitFlagAlways(c) == TRUE

\* submit_workflow(workflow, wait=...): scratch executions always wait
WaitFlag(c) == IF cur[c] = "main" THEN args[c].wait ELSE TRUE

NewWorkflow(c) ==
    [kind |-> cur[c], owner |-> c, phase |-> "None", deleted |-> FALSE, param |-> ""]

\* a submit that goes on with a workflow that has no name
CreateIgnoresMissingName(c) ==
    /\ pc[c] = "create"
    /\ creates' = [creates EXCEPT ![c][cur[c]] = @ + 1]
    /\ polled' = [polled EXCEPT ![c] = << >>]
    /\ \/ /\ wfs' = Append(wfs, NewWorkflow(c))
          /\ wfname' = [wfname EXCEPT ![c] = Len(wfs) + 1]
       \/ /\ wfs' = Append(wfs, NewWorkflow(c))
          /\ wfname' = [wfname EXCEPT ![c] = 0]
    /\ pc' = [pc EXCEPT ![c] = IF WaitFlag(c) THEN "wait" ELSE "submitted"]
    /\ UNCHANGED << active, recipe, args, cur, result, err, graph, pvc0, pvc, pin, pout, nodes, meta, gen >>

\* workflow.create() and the check of workflow.name
Create(c) ==
    /\ pc[c] = "create"
    /\ creates' = [creates EXCEPT ![c][cur[c]] = @ + 1]
    /\ polled' = [polled EXCEPT ![c] = << >>]
    /\ \/ /\ wfs' = Append(wfs, NewWorkflow(c))
          /\ wfname' = [wfname EXCEPT ![c] = Len(wfs) + 1]
          /\ pc' = [pc EXCEPT ![c] = IF WaitFlag(c) THEN "wait" ELSE "submitted"]
          /\ UNCHANGED err
       \/ /\ wfs' \in {wfs, Append(wfs, NewWorkflow(c))}
          /\ wfname' = [wfname EXCEPT ![c] = 0]
          /\ Raise(c, "OgdcWorkflowExecutionError", "Problem with submitting workflow.", 0)
       \/ /\ UNCHANGED << wfs, wfname >>
          /\ Raise(c, "ServiceError", "create", 0)
    /\ UNCHANGED << active, recipe, args, cur, result, graph, pvc0, pvc, pin, pout, nodes, meta, gen >>

\* get_workflow_status
get_workflow_status(name) == wfs[name].phase

\* a loop that does not stop on a failed workflow
WaitVerdictIgnoresFailed(status) ==
    IF status = "Succeeded" THEN "return" ELSE "sleep"

\* a loop that takes the phase Error for a failure
WaitVerdictErrorFails(status) ==
    IF status \in {"Failed", "Error"} THEN "raise"
    ELSE IF status = "Succeeded" THEN "return"
    ELSE "sleep"

\* a loop that does not stop on a succeeded workflow
WaitVerdictIgnoresSucceeded(status) ==
    IF status = "Failed" THEN "raise" ELSE "sleep"

\* one turn of the loop of wait_for_workflow_completion
WaitVerdict(status) ==
    IF status = "None" THEN "sleep"
    ELSE IF status = "Failed" THEN "raise"
    ELSE IF status = "Succeeded" THEN "return"
    ELSE "sleep"

Poll(c) ==
    /\ pc[c] = "wait"
    /\ Len(polled[c]) < MaxPolls
    /\ LET status == get_workflow_status(wfname[c])
           verdict == WaitVerdict(status)
       IN  /\ polled' = [polled EXCEPT ![c] = Append(@, status)]
           /\ IF verdict = "raise"
              THEN Raise(c, "OgdcWorkflowExecutionError", "Workflow with name {} failed.",
                         wfname[c])
              ELSE IF verdict = "return"
              THEN pc' = [pc EXCEPT ![c] = "submitted"] /\ UNCHANGED err
              ELSE UNCHANGED << pc, err >>
    /\ UNCHANGED << active, recipe, args, cur, wfname, result, graph, creates, pvc0,
                    wfs, pvc, pin, pout, nodes, meta, gen >>

\* a removal that empties the directory and leaves it in place
RemoveEffectKeepsDir(dest) == [exists |-> dest.exists, items |-> {}]

\* the container of remove_existing_published_data: rm -rf /mnt/{recipe_id}
RemoveEffect(dest) == Absent

\* the container of check_for_existing_pvc_published_data:
\* test -d /mnt/{recipe_id} && echo "yes" || echo "no", into the output parameter
CheckOutput(dest) == IF dest.exists THEN "yes" ELSE "no"

\* a check whose volume mount creates the directory it looks for
CheckEffectCreatesDir(dest) == [exists |-> TRUE, items |-> dest.items]

CheckEffect(dest) == dest

\* the publish container of a sequential pvc recipe: the volume is mounted at
\* sub_path recipe_id and the outputs are rsynced into it
PublishEffect(dest) == [exists |-> TRUE, items |-> dest.items \cup {"published"}]

\* the fetch container with use_pvc (and the staging task of a visualization
\* workflow): mkdir -p /mnt/workflow/{recipe_id}/inputs and the downloads
WorkEffect(dest) == [exists |-> TRUE, items |-> dest.items \cup {"work"}]

\* what a main workflow that ran to the end has done to the destination
MainEffect(dest) ==
    IF recipe.wtype = "visualization" \/ recipe.parallel_enabled THEN WorkEffect(dest)
    ELSE IF recipe.output = "pvc" THEN PublishEffect(dest)
    ELSE dest

\* a workflow that failed did any part of its work
PartialEffects(dest, full) ==
    {dest, full} \cup (IF full.exists THEN {[exists |-> TRUE, items |-> dest.items]} ELSE {})

\* the engine moves a workflow forward, up to a phase it never leaves
EngineStep(w) ==
    /\ w \in 1..Len(wfs)
    /\ ~wfs[w].deleted
    /\ wfs[w].phase \notin Final
    /\ \E p \in Phases :
        /\ PhaseRank(p) > PhaseRank(wfs[w].phase)
        /\ LET full == CASE wfs[w].kind = "remove" -> RemoveEffect(pvc)
                         [] wfs[w].kind = "check" -> CheckEffect(pvc)
                         [] OTHER -> MainEffect(pvc)
           IN  /\ IF p = "Succeeded" THEN pvc' = full
                  ELSE IF p \in Final THEN pvc' \in PartialEffects(pvc, full)
                  ELSE pvc' = pvc
               /\ \E out \in {CheckOutput(pvc), ""} :
                     wfs' = [wfs EXCEPT ![w].phase = p,
                                        ![w].param = IF wfs[w].kind = "check" /\ p = "Succeeded"
                                                     THEN out ELSE ""]
    /\ UNCHANGED << active, recipe, caller_vars, pin, pout, nodes, meta, gen >>

\* ARGO_WORKFLOW_SERVICE.delete_workflow(workflow_name) of a scratch execution,
\* and the return of data_already_published that follows it
DeleteScratch(c) ==
    /\ pc[c] = "delete"
    /\ \/ /\ wfs' = [wfs EXCEPT ![wfname[c]].deleted = TRUE]
          /\ result' = [result EXCEPT ![c] =
                IF cur[c] = "remove" THEN "false"
                ELSE IF wfs[wfname[c]].param = "yes" THEN "true" ELSE "false"]
          /\ pc' = [pc EXCEPT ![c] = "decide"]
          /\ UNCHANGED err
       \/ /\ Raise(c, "ServiceError", "delete", 0)
          /\ UNCHANGED << wfs, result >>
    /\ UNCHANGED << active, recipe, args, cur, wfname, polled, graph, creates, pvc0,
                    pvc, pin, pout, nodes, meta, gen >>

\* what follows the return of submit_workflow
AfterSubmit(c) ==
    /\ pc[c] = "submitted"
    /\ IF cur[c] = "remove"
       THEN pc' = [pc EXCEPT ![c] = "delete"] /\ UNCHANGED err
       ELSE IF cur[c] = "check"
       THEN \* get_workflow and the search for the output parameter
            IF wfs[wfname[c]].param = ""
            THEN Raise(c, "OgdcWorkflowExecutionError",
                       "Failed to check if data have been published", 0)
            ELSE pc' = [pc EXCEPT ![c] = "delete"] /\ UNCHANGED err
       ELSE \* submit_ogdc_recipe returns the workflow name
            pc' = [pc EXCEPT ![c] = "done"] /\ UNCHANGED err
    /\ UNCHANGED << active, recipe, args, cur, wfname, polled, result, graph, creates,
                    pvc0, wfs, pvc, pin, pout, nodes, meta, gen >>

\* a caller that goes on whatever data_already_published returned
DecideIgnoresResult(c) ==
    /\ pc[c] = "decide"
    /\ pc' = [pc EXCEPT ![c] = "compile"]
    /\ UNCHANGED << active, recipe, args, cur, wfname, polled, result, err, graph,
                    creates, pvc0, wfs, pvc, pin, pout, nodes, meta, gen >>

\* if data_already_published(...): raise OgdcDataAlreadyPublished
Decide(c) ==
    /\ pc[c] = "decide"
    /\ IF result[c] = "true"
       THEN Raise(c, "OgdcDataAlreadyPublished",
                  "Data for recipe {} have already been published.", 0)
       ELSE pc' = [pc EXCEPT ![c] = "compile"] /\ UNCHANGED err
    /\ UNCHANGED << active, recipe, args, cur, wfname, polled, result, graph, creates,
                    pvc0, wfs, pvc, pin, pout, nodes, meta, gen >>

\* make_and_submit_*_workflow up to submit_workflow
Compile(c) ==
    /\ pc[c] = "compile"
    /\ LET g == compile_recipe(recipe)
       IN  /\ graph' = [graph EXCEPT ![c] = g]
           /\ IF g.ok
              THEN /\ pc' = [pc EXCEPT ![c] = "create"]
                   /\ cur' = [cur EXCEPT ![c] = "main"]
                   /\ UNCHANGED err
              ELSE /\ Raise(c, g.error, "compile", 0)
                   /\ UNCHANGED cur
    /\ UNCHANGED << active, recipe, args, wfname, polled, result, creates, pvc0, wfs,
                    pvc, pin, pout, nodes, meta, gen >>

\* a call of create_partitions
ApplyCreatePartitions ==
    /\ pout = NotRun
    /\ pout' = create_partitions(pin.source, pin.files, pin.execution_function,
                                 pin.parallel_config)
    /\ UNCHANGED << active, recipe, caller_vars, wfs, pvc, pin, nodes,
                    meta, gen >>

Next ==
    \/ \E c \in active : Start(c)
    \/ \E c \in active : Create(c)
    \/ \E c \in active : Poll(c)
    \/ \E c \in active : AfterSubmit(c)
    \/ \E c \in active : DeleteScratch(c)
    \/ \E c \in active : Decide(c)
    \/ \E c \in active : Compile(c)
    \/ \E w \in 1..Len(wfs) : EngineStep(w)

Spec == Init /\ [][Next]_vars

\* two calls of submit_ogdc_recipe for the same pvc recipe, sequential or
\* parallel, with overwrite false and wait false, begun while the destination
\* does not exist; their steps interleave freely, so that one call may run
\* after the main workflow of the other has ended
ConcurrentRecipes ==
    { Recipe(<< InputParam(type, 1) >>, << "cp" >>, enabled, 1, "pvc", "shell") :
        type \in {"url", "file_system"}, enabled \in BOOLEAN }

InitConcurrent ==
    /\ active = Callers
    /\ recipe \in ConcurrentRecipes
    /\ args = [c \in Callers |-> [overwrite |-> FALSE, wait |-> FALSE]]
    /\ IdleCallers
    /\ pvc = Absent
    /\ pvc0 = [c \in Callers |-> pvc]
    /\ wfs = << >>
    /\ pin = IdleArgs
    /\ pout = NotRun
    /\ nodes = NoNodes
    /\ meta = NoMeta
    /\ gen = NoCall

SpecConcurrent == InitConcurrent /\ [][Next]_vars

\* the compiler alone, on every recipe of CompileRecipes: the call stands
\* right after data_already_published returned false
InitCompile ==
    /\ active = {1}
    /\ recipe \in CompileRecipes
    /\ args = [c \in Callers |-> [overwrite |-> FALSE, wait |-> FALSE]]
    /\ pc = [c \in Callers |-> IF c = 1 THEN "compile" ELSE "idle"]
    /\ cur = [c \in Callers |-> "none"]
    /\ wfname = [c \in Callers |-> 0]
    /\ polled = [c \in Callers |-> << >>]
    /\ result = [c \in Callers |-> IF c = 1 THEN "false" ELSE "unset"]
    /\ err = [c \in Callers |-> NoError]
    /\ graph = [c \in Callers |-> NoGraph]
    /\ creates = [c \in Callers |-> [k \in Kinds |-> 0]]
    /\ pvc = Absent
    /\ pvc0 = [c \in Callers |-> pvc]
    /\ wfs = << >>
    /\ pin = IdleArgs
    /\ pout = NotRun
    /\ nodes = NoNodes
    /\ meta = NoMeta
    /\ gen = NoCall

NextCompile == \E c \in active : Compile(c)

SpecCompile == InitCompile /\ [][NextCompile]_vars

\* create_partitions alone, on every argument list of PartitionArgs
InitPartition ==
    /\ active = {}
    /\ recipe = Recipe(<< InputParam("url", 1) >>, << >>, FALSE, 1, "pvc", "shell")
    /\ args = [c \in Callers |-> [overwrite |-> FALSE, wait |-> FALSE]]
    /\ IdleCallers
    /\ pvc = Absent
    /\ pvc0 = [c \in Callers |-> pvc]
    /\ wfs = << >>
    /\ pin \in PartitionArgs
    /\ pout = NotRun
    /\ nodes = NoNodes
    /\ meta = NoMeta
    /\ gen = NoCall

NextPartition == ApplyCreatePartitions

SpecPartition == InitPartition /\ [][NextPartition]_vars

\* the call stands right after data_already_published returned false
AtCompile ==
    /\ active = {1}
    /\ pc = [c \in Callers |-> IF c = 1 THEN "compile" ELSE "idle"]
    /\ cur = [c \in Callers |-> "none"]
    /\ wfname = [c \in Callers |-> 0]
    /\ polled = [c \in Callers |-> << >>]
    /\ result = [c \in Callers |-> IF c = 1 THEN "false" ELSE "unset"]
    /\ err = [c \in Callers |-> NoError]
    /\ graph = [c \in Callers |-> NoGraph]
    /\ creates = [c \in Callers |-> [k \in Kinds |-> 0]]
    /\ pvc = Absent
    /\ pvc0 = [c \in Callers |-> pvc]
    /\ wfs = << >>
    /\ pin = IdleArgs
    /\ pout = NotRun
    /\ nodes = NoNodes
    /\ meta = NoMeta
    /\ gen = NoCall

\* make_and_submit_shell_workflow: compilation and submit_workflow, on every
\* recipe of MainRecipes
InitMain ==
    /\ AtCompile
    /\ recipe \in MainRecipes
    /\ args \in [Callers -> [overwrite : {FALSE}, wait : BOOLEAN]]
    /\ args[2] = args[1]

NextMain ==
    \/ \E c \in active : Compile(c)
    \/ \E c \in active : Create(c)
    \/ \E c \in active : Poll(c)
    \/ \E c \in active : AfterSubmit(c)
    \/ \E w \in 1..Len(wfs) : EngineStep(w)

SpecMain == InitMain /\ [][NextMain]_vars

\* the same, with the loop of wait_for_workflow_completion kept running: the
\* loop never blocks, after time.sleep(5) it reads the status again
SpecMainLive == InitMain /\ [][NextMain]_vars /\ WF_vars(Poll(1))

\* the engine's rule for the tasks of a graph: a task may start once every
\* task it depends on has succeeded
Ready(n) == \A d \in graph[1].deps : d[2] = n => d[1] \in nodes.succeeded

\* the engine starts a task of the compiled graph
StartTask(n) ==
    /\ graph[1].ok
    /\ n \in TaskNames(graph[1].tasks) \ nodes.started
    /\ Ready(n)
    /\ nodes' = [nodes EXCEPT !.started = @ \cup {n}]
    /\ UNCHANGED << active, recipe, caller_vars, wfs, pvc, pin, pout,
                    meta, gen >>

\* a started task ends, with success or not
FinishTask(n) ==
    /\ n \in nodes.started \ (nodes.succeeded \cup nodes.failed)
    /\ \/ nodes' = [nodes EXCEPT !.succeeded = @ \cup {n}]
       \/ nodes' = [nodes EXCEPT !.failed = @ \cup {n}]
    /\ UNCHANGED << active, recipe, caller_vars, wfs, pvc, pin, pout,
                    meta, gen >>

\* a recipe of RunRecipes is compiled and the engine runs its graph
InitRun ==
    /\ AtCompile
    /\ recipe \in RunRecipes
    /\ args = [c \in Callers |-> [overwrite |-> FALSE, wait |-> FALSE]]

NextRun ==
    \/ \E c \in active : Compile(c)
    \/ \E n \in TaskNames(graph[1].tasks) : StartTask(n)
    \/ \E n \in nodes.started : FinishTask(n)

SpecRun == InitRun /\ [][NextRun]_vars

\* one more call of create_partitions on the same arguments; pout is the list
\* of what the calls returned
RepeatCreatePartitions ==
    /\ Len(pout) < MaxCalls
    /\ \E files \in (IF pin.source = "artifact" THEN Listings(pin.dir) ELSE {pin.files}) :
          pout' = Append(pout, create_partitions(pin.source, files, pin.execution_function,
                                                 pin.parallel_config))
    /\ UNCHANGED << active, recipe, caller_vars, wfs, pvc, pin, nodes,
                    meta, gen >>

\* create_partitions called again and again on the same arguments
InitRepeat ==
    /\ active = {}
    /\ recipe = Recipe(<< InputParam("url", 1) >>, << >>, FALSE, 1, "pvc", "shell")
    /\ args = [c \in Callers |-> [overwrite |-> FALSE, wait |-> FALSE]]
    /\ IdleCallers
    /\ pvc = Absent
    /\ pvc0 = [c \in Callers |-> pvc]
    /\ wfs = << >>
    /\ pin \in RepeatArgs
    /\ pout = << >>
    /\ nodes = NoNodes
    /\ meta = NoMeta
    /\ gen = NoCall

NextRepeat == RepeatCreatePartitions

SpecRepeat == InitRepeat /\ [][NextRepeat]_vars

\* ---------------------------------------------------------------- recipe name
\* the characters a name is written with: letters of both cases, a digit, the
\* three punctuation characters of the pattern, and three outside it
UpperCase == {"A", "Z"}
LowerCase == {"a", "z"}
Digits == {"7"}
NameChars == UpperCase \cup LowerCase \cup Digits \cup {" ", ".", "-", "*", "_", ","}

Names == SeqsOf(NameChars, 0, MaxNameLen)

\* Field(..., pattern=r"^[a-zA-Z0-9 .-]+$")
name_pattern(name) ==
    /\ Len(name) >= 1
    /\ \A i \in 1..Len(name) :
          name[i] \in UpperCase \cup LowerCase \cup Digits \cup {" ", ".", "-"}

\* str.lower(), character by character
lower_char(ch) ==
    CASE ch = "A" -> "a"
      [] ch = "Z" -> "z"
      [] OTHER -> ch

lower(s) == [i \in 1..Len(s) |-> lower_char(s[i])]

\* a replace that returns the string as it is
replace_nothing(s, old, new) == s

\* str.replace(old, new) for one-character strings
replace(s, old, new) == [i \in 1..Len(s) |-> IF s[i] = old THEN new ELSE s[i]]

\* RecipeConfig.id
k8s_name(name) == replace(lower(name), " ", "-")

\* RecipeConfig(name=...): pydantic validates the fields
ValidateName ==
    /\ meta.state = "raw"
    /\ meta' = [meta EXCEPT !.state = IF name_pattern(meta.name) THEN "loaded"
                                      ELSE "ValidationError"]
    /\ UNCHANGED << active, recipe, caller_vars, wfs, pvc, pin, pout, nodes, gen >>

\* an access of recipe_config.id: a cached_property, computed on the first
\* access and read from the instance afterwards
ReadId ==
    /\ meta.state = "loaded"
    /\ meta' = [meta EXCEPT !.id = IF @ = NoMeta.id THEN k8s_name(meta.name) ELSE @]
    /\ UNCHANGED << active, recipe, caller_vars, wfs, pvc, pin, pout, nodes, gen >>

\* a RecipeConfig built from any name of Names, whose id is then read
InitMeta ==
    /\ active = {}
    /\ recipe = Recipe(<< InputParam("url", 1) >>, << >>, FALSE, 1, "pvc", "shell")
    /\ args = [c \in Callers |-> [overwrite |-> FALSE, wait |-> FALSE]]
    /\ IdleCallers
    /\ pvc = Absent
    /\ pvc0 = [c \in Callers |-> pvc]
    /\ wfs = << >>
    /\ pin = IdleArgs
    /\ pout = NotRun
    /\ nodes = NoNodes
    /\ meta \in [name : Names, state : {"raw"}, id : {NoMeta.id}]
    /\ gen = NoCall

NextMeta == ValidateName \/ ReadId

SpecMeta == InitMeta /\ [][NextMeta]_vars

\* -------------------------------------------------------------- generate_name
KUBERNETES_NAME_MAX_LENGTH == 63
ARGO_GENERATED_SUFFIX_LENGTH == 5

\* a string of n characters, all `ch`
StringOf(ch, n) == [i \in 1..n |-> ch]

\* s[:n] of Python: a negative n counts from the end
py_prefix(s, n) ==
    IF n >= 0 THEN SubSeq(s, 1, Min(n, Len(s)))
    ELSE SubSeq(s, 1, IF Len(s) + n > 0 THEN Len(s) + n ELSE 0)

make_generate_name(recipe_id, suffix) ==
    LET max_generate_name_length == KUBERNETES_NAME_MAX_LENGTH - ARGO_GENERATED_SUFFIX_LENGTH
        max_id_length == max_generate_name_length - Len(suffix)
        truncated_id == py_prefix(recipe_id, max_id_length)
    IN  IF suffix # << >> THEN truncated_id \o << "-" >> \o suffix \o << "-" >>
        ELSE truncated_id

\* a call of make_generate_name
CallMakeGenerateName ==
    /\ gen.out = NoCall.out
    /\ gen' = [gen EXCEPT !.out = make_generate_name(gen.recipe_id, gen.suffix)]
    /\ UNCHANGED << active, recipe, caller_vars, wfs, pvc, pin, pout, nodes, meta >>

\* make_generate_name alone, on recipe ids and suffixes of every length up to
\* MaxIdLen and MaxSuffixLen
InitGenerateName ==
    /\ active = {}
    /\ recipe = Recipe(<< InputParam("url", 1) >>, << >>, FALSE, 1, "pvc", "shell")
    /\ args = [c \in Callers |-> [overwrite |-> FALSE, wait |-> FALSE]]
    /\ IdleCallers
    /\ pvc = Absent
    /\ pvc0 = [c \in Callers |-> pvc]
    /\ wfs = << >>
    /\ pin = IdleArgs
    /\ pout = NotRun
    /\ nodes = NoNodes
    /\ meta = NoMeta
    /\ \E n \in 0..MaxIdLen : \E m \in 0..MaxSuffixLen :
          gen = [recipe_id |-> StringOf("r", n), suffix |-> StringOf("s", m),
                 out |-> NoCall.out]

NextGenerateName == CallMakeGenerateName

SpecGenerateName == InitGenerateName /\ [][NextGenerateName]_vars

\* ------------------------------------------------------------------ properties
CeilDiv(a, b) == (a + b - 1) \div b

RECURSIVE SumNumFiles(_, _)
SumNumFiles(parts, n) ==
    IF n = 0 THEN 0 ELSE Len(parts[n].files) + SumNumFiles(parts, n - 1)

RECURSIVE ConcatFiles(_, _)
ConcatFiles(parts, n) ==
    IF n = 0 THEN << >> ELSE ConcatFiles(parts, n - 1) \o parts[n].files

\* create_partitions has been called with a function and a size >= 1
SizedCall ==
    /\ pout # NotRun
    /\ pin.execution_function.present
    /\ pin.parallel_config.present
    /\ pin.parallel_config.num_files_per_partition >= 1

\* C9: for a non-empty file list F and a partition size s >= 1, create_partitions
\* returns exactly ceil(len(F)/s) partitions whose file counts sum to len(F), and
\* exactly one partition when s >= len(F).
C9_PartitionCount ==
    (SizedCall /\ pin.files # << >>) =>
        LET s == pin.parallel_config.num_files_per_partition
            parts == pout.partitions
        IN  /\ pout.ok
            /\ Len(parts) = CeilDiv(Len(pin.files), s)
            /\ SumNumFiles(parts, Len(parts)) = Len(pin.files)
            /\ \A p \in 1..Len(parts) : parts[p].num_files = Len(parts[p].files)
            /\ (s >= Len(pin.files) => Len(parts) = 1)

\* four files in partitions of three: a full partition and a smaller last one
C9_Witness ==
    /\ SizedCall
    /\ Len(pin.files) = 4
    /\ pin.parallel_config.num_files_per_partition = 3
    /\ Len(pout.partitions) = 2
    /\ Len(pout.partitions[2].files) = 1

\* C10: the partition at position i (0-based) has partition_id i and the files
\* files[i*size : (i+1)*size]; every partition is non-empty; the partitions'
\* files, concatenated in partition_id order, are the input list.
C10_ContiguousChunks ==
    (SizedCall /\ pout.ok) =>
        LET s == pin.parallel_config.num_files_per_partition
            F == pin.files
            parts == pout.partitions
        IN  /\ \A p \in 1..Len(parts) :
                 LET i == p - 1
                     hi == Min((i + 1) * s, Len(F))
                 IN  /\ parts[p].partition_id = i
                     /\ Len(parts[p].files) = hi - i * s
                     /\ Len(parts[p].files) >= 1
                     /\ \A k \in 1..Len(parts[p].files) :
                          parts[p].files[k] = F[i * s + k]
            /\ ConcatFiles(parts, Len(parts)) = F

\* three different files in partitions of two: <<a, b>> then <<c>>
C10_Witness ==
    /\ SizedCall
    /\ pin.files = << "a", "b", "c" >>
    /\ pin.parallel_config.num_files_per_partition = 2
    /\ Len(pout.partitions) = 2
    /\ pout.partitions[1].files = << "a", "b" >>
    /\ pout.partitions[2].files = << "c" >>

\* ---- the compiled graph of caller 1
G == graph[1]

IsCommand(line) == line \in {"cp", "gzip"}

\* positions of the command lines of recipe.sh
CommandPositions == { j \in 1..Len(recipe.sh_lines) : IsCommand(recipe.sh_lines[j]) }

NumCommands == Cardinality(CommandPositions)

\* the n-th command of recipe.sh in file order, n from 1
NthCommand(n) ==
    LET j == CHOOSE j \in CommandPositions :
                 Cardinality({ i \in CommandPositions : i < j }) = n - 1
    IN  recipe.sh_lines[j]

StageTasks(k) == { i \in 1..Len(G.tasks) : G.tasks[i].stage = k }

PublishKinds == {"publish-pvc", "publish-zip"}

AllUrl == \A i \in 1..Len(recipe.inputs) : recipe.inputs[i].type = "url"

SequentialCompiled ==
    pc[1] # "compile" /\ recipe.wtype = "shell" /\ ~recipe.parallel_enabled

ParallelCompiled ==
    pc[1] # "compile" /\ recipe.wtype = "shell" /\ recipe.parallel_enabled

\* C5 (as stated): a parallel-mode graph ends with a publish stage of exactly one
\* task that depends on every partition task of the last command stage.
C5_ParallelPublishStage ==
    (ParallelCompiled /\ G.ok) =>
        /\ Cardinality(StageTasks(NumCommands + 1)) = 1
        /\ \A i \in StageTasks(NumCommands + 1) :
             /\ G.tasks[i].kind \in PublishKinds
             /\ \A j \in StageTasks(NumCommands) :
                  << G.tasks[j].name, G.tasks[i].name >> \in G.deps

\* C6: in sequential mode a recipe with N commands compiles to N+2 stages of one
\* task each: fetch, the commands in file order, publish; every stage after
\* fetch takes the output directory of the stage right before it.
C6_SequentialChain ==
    SequentialCompiled =>
        /\ (AllUrl /\ recipe.output # "dataone") => G.ok
        /\ G.ok =>
            LET t == G.tasks
                N == NumCommands
            IN  /\ Len(t) = N + 2
                /\ \A k \in 1..Len(t) : StageTasks(k - 1) = {k}
                /\ t[1].kind = "fetch"
                /\ t[N + 2].kind \in PublishKinds
                /\ \A n \in 1..N : t[n + 1].kind = "cmd" /\ t[n + 1].command = NthCommand(n)
                /\ \A k \in 2..Len(t) : t[k].input_from = t[k - 1].name
                /\ \A k \in 1..Len(t) : \A m \in 1..Len(t) : t[k].name = t[m].name => k = m
                /\ G.deps = { << t[k].name, t[k + 1].name >> : k \in 1..(Len(t) - 1) }

\* recipe.sh holds gzip, a comment and cp: fetch, gzip, cp, publish
C6_Witness ==
    /\ SequentialCompiled
    /\ G.ok
    /\ recipe.sh_lines = << "gzip", "# comment", "cp" >>
    /\ Len(G.tasks) = 4
    /\ G.tasks[2].command = "gzip"
    /\ G.tasks[3].command = "cp"
    /\ G.tasks[4].input_from = G.tasks[3].name

\* C7: in parallel mode with k input files and partition size p >= 1 every
\* command stage holds exactly ceil(k/p) tasks, one per partition.
C7_TasksPerStage ==
    (ParallelCompiled /\ G.ok /\ recipe.parallel_config.num_files_per_partition >= 1) =>
        LET k == Len(recipe.inputs)
            p == recipe.parallel_config.num_files_per_partition
        IN  \A idx \in 0..(NumCommands - 1) :
              /\ Cardinality(StageTasks(idx + 1)) = CeilDiv(k, p)
              /\ { G.tasks[i].name.pid : i \in StageTasks(idx + 1) } = 0..(CeilDiv(k, p) - 1)
              /\ \A i \in StageTasks(idx + 1) :
                    G.tasks[i].kind = "partition" /\ G.tasks[i].name.idx = idx

\* three inputs in partitions of two: two tasks in the command stage
C7_Witness ==
    /\ ParallelCompiled
    /\ G.ok
    /\ Len(recipe.inputs) = 3
    /\ recipe.parallel_config.num_files_per_partition = 2
    /\ NumCommands = 1
    /\ Cardinality(StageTasks(1)) = 2

\* C8: in a parallel-mode graph the edges are exactly the pairs of a task and a
\* task of the next stage (the first command stage follows the one fetch task);
\* no edge joins other stages or points backwards.
C8_FanInFanOut ==
    (ParallelCompiled /\ G.ok) =>
        LET t == G.tasks
        IN  /\ StageTasks(0) = {1} /\ t[1].kind = "fetch"
            /\ \A k \in 1..Len(t) : \A m \in 1..Len(t) : t[k].name = t[m].name => k = m
            /\ \A i \in 1..Len(t) : t[i].stage \in 0..NumCommands
            /\ G.deps = UNION { { << t[i].name, t[j].name >> :
                                     j \in { m \in 1..Len(t) : t[m].stage = t[i].stage + 1 } } :
                                 i \in 1..Len(t) }

\* two commands over three partitions each: 3 + 9 edges
C8_Witness ==
    /\ ParallelCompiled
    /\ G.ok
    /\ NumCommands = 2
    /\ Cardinality(StageTasks(1)) = 3
    /\ Cardinality(StageTasks(2)) = 3
    /\ Cardinality(G.deps) = 12

\* ---- submit_ogdc_recipe
MainWorkflowsOf(c) == { w \in 1..Len(wfs) : wfs[w].kind = "main" /\ wfs[w].owner = c }

\* C1: when data_already_published returns true (overwrite is false and the
\* subpath exists) submit_ogdc_recipe raises OgdcDataAlreadyPublished; the main
\* workflow is neither compiled nor created.
C1_PublishedBlocksSubmit ==
    \A c \in active :
        result[c] = "true" =>
            /\ ~args[c].overwrite
            /\ pvc0[c].exists
            /\ pc[c] \in {"decide", "raised"}
            /\ pc[c] = "raised" => err[c].kind = "OgdcDataAlreadyPublished"
            /\ graph[c] = NoGraph
            /\ creates[c]["main"] = 0
            /\ MainWorkflowsOf(c) = {}

C1_Witness ==
    /\ result[1] = "true"
    /\ pc[1] = "raised"
    /\ err[1].kind = "OgdcDataAlreadyPublished"
    /\ creates[1]["check"] = 1

FailedMessage == "Workflow with name {} failed."

\* C2: a wait loop whose first terminal status (Succeeded or Failed) is the n-th
\* status it reads makes exactly n polls: none after a terminal status; it
\* returns on Succeeded and raises the execution error naming the workflow on
\* Failed; before a terminal status it is still waiting.
C2_PollsUntilTerminal ==
    \A c \in active :
        LET h == polled[c]
            n == Len(h)
        IN  /\ \A i \in 1..(n - 1) : h[i] \notin Terminal
            /\ pc[c] = "wait" => (n = 0 \/ h[n] \notin Terminal)
            /\ (n > 0 /\ h[n] \notin Terminal) => pc[c] = "wait"
            /\ (n > 0 /\ h[n] = "Succeeded") =>
                  pc[c] # "wait" /\ err[c].msg # FailedMessage
            /\ (n > 0 /\ h[n] = "Failed") =>
                  /\ pc[c] = "raised"
                  /\ err[c] = [kind |-> "OgdcWorkflowExecutionError",
                               msg |-> FailedMessage, wf |-> wfname[c]]
            /\ err[c].msg = FailedMessage => (n > 0 /\ h[n] = "Failed")

\* the statuses Running, Running, Failed: the error after exactly three polls
C2_Witness ==
    /\ polled[1] = << "Running", "Running", "Failed" >>
    /\ pc[1] = "raised"
    /\ err[1].wf = wfname[1]
    /\ wfname[1] > 0

\* C3: data_already_published(recipe, overwrite=True) returns false, and when it
\* returns the recipe-id-scoped subpath does not exist, whatever was there.
C3_OverwriteClears ==
    \A c \in active :
        args[c].overwrite =>
            /\ result[c] \in {"unset", "false"}
            /\ pc[c] = "decide" => (result[c] = "false" /\ ~pvc.exists)

C3_Witness ==
    /\ args[1].overwrite
    /\ pc[1] = "decide"
    /\ pvc0[1] = [exists |-> TRUE, items |-> {"published", "work"}]
    /\ ~pvc.exists

\* C4: data_already_published(recipe, overwrite=False) for a pvc output returns
\* true exactly when the subpath exists and false exactly when it does not, and
\* leaves the destination as it was.
C4_CheckReadsOnly ==
    \A c \in active :
        (~args[c].overwrite /\ recipe.output = "pvc") =>
            /\ pc[c] = "decide" =>
                /\ result[c] \in {"true", "false"}
                /\ result[c] = "true" <=> pvc0[c].exists
                /\ pvc = pvc0[c]
            /\ (pc[c] \in {"create", "wait", "submitted", "delete"} /\ cur[c] = "check") =>
                  pvc = pvc0[c]

C4_Witness ==
    /\ ~args[1].overwrite
    /\ recipe.output = "pvc"
    /\ pc[1] = "decide"
    /\ result[1] = "true"
    /\ pvc = [exists |-> TRUE, items |-> {"published"}]
    /\ pvc = pvc0[1]

\* ---- create_partitions: empty input, clamping, repeated calls
\* C11 (as stated): create_partitions on an empty file list fails with the
\* empty-input error whichever way the empty list arises, and never returns an
\* empty list of partitions.
C11_EmptyInputFails ==
    (pout # NotRun /\ pin.execution_function.present) =>
        /\ pin.files = << >> => (~pout.ok /\ pout.error = "ValueError")
        /\ pout.ok => pout.partitions # << >>

\* create_partitions has been called with a function, a non-empty file list and
\* either no configuration or a size below 1
UnsizedCall ==
    /\ pout # NotRun
    /\ pin.execution_function.present
    /\ pin.files # << >>
    /\ (~pin.parallel_config.present \/ pin.parallel_config.num_files_per_partition < 1)

\* C12: for a non-empty file list, a partition size of 0 or below, and no
\* parallel configuration at all, give exactly the partitions of size 1: one
\* file per partition, in order, and no error.
C12_ClampToOne ==
    UnsizedCall =>
        /\ pout.ok
        /\ pout = create_partitions(pin.source, pin.files, pin.execution_function, Config(1))
        /\ Len(pout.partitions) = Len(pin.files)
        /\ \A p \in 1..Len(pout.partitions) :
              /\ pout.partitions[p].partition_id = p - 1
              /\ pout.partitions[p].files = << pin.files[p] >>

\* three files and size 0: three partitions of one file
C12_Witness ==
    /\ UnsizedCall
    /\ pin.parallel_config = Config(0)
    /\ Len(pin.files) = 3
    /\ Len(pout.partitions) = 3

\* C13 (as stated): calls of create_partitions on the same inputs, or on the
\* same artifact directory content, with the same size return identical lists
\* of partitions.
C13_Deterministic ==
    \A i \in 1..Len(pout) : \A j \in 1..Len(pout) : pout[i] = pout[j]

\* ---- submit_workflow
SubmitProblem == "Problem with submitting workflow."

\* the call stands inside or after a submit_workflow whose create call returned
InSubmit(c) == pc[c] \in {"wait", "submitted", "delete", "done"}

\* C14: a create call that leaves the workflow without a name makes
\* submit_workflow raise the submission error at once: no status poll is made,
\* even with wait=True, and the create call is not made again; a submit never
\* goes on to wait or return with a workflow that has no name.
C14_MissingNameIsFatal ==
    \A c \in active :
        /\ InSubmit(c) => wfname[c] > 0
        /\ err[c].msg = SubmitProblem =>
              /\ pc[c] = "raised"
              /\ err[c].kind = "OgdcWorkflowExecutionError"
              /\ wfname[c] = 0
              /\ polled[c] = << >>
              /\ creates[c][cur[c]] = 1

\* the recipe's workflow, submitted with wait=True, came back without a name
C14_Witness ==
    /\ err[1].msg = SubmitProblem
    /\ cur[1] = "main"
    /\ args[1].wait
    /\ polled[1] = << >>
    /\ creates[1]["main"] = 1

\* C15: while every status the wait loop has read is neither Succeeded nor
\* Failed (None, Pending, Running, or another string such as Error) the loop has
\* neither returned nor raised, and it polls again.
C15_NonTerminalKeepsWaiting ==
    \A c \in active :
        (polled[c] # << >> /\ \A i \in 1..Len(polled[c]) : polled[c][i] \notin Terminal) =>
            /\ pc[c] = "wait"
            /\ err[c] = NoError
            /\ Len(polled[c]) < MaxPolls => ENABLED Poll(c)

\* the loop has read None, Running and Error and is still waiting
C15_Witness ==
    /\ polled[1] = << "None", "Running", "Error" >>
    /\ pc[1] = "wait"
    /\ err[1] = NoError

\* all create calls made by caller c
CreateCalls(c) == creates[c]["remove"] + creates[c]["check"] + creates[c]["main"]

\* C16: a call of submit_workflow makes exactly one create call, with or without
\* wait and however the wait ends; a status poll changes nothing on the engine
\* or the volume and makes no create call; with wait=False no status is read.
C16_OneCreatePerSubmit ==
    /\ [](\A c \in active :
            /\ \A k \in Kinds : creates[c][k] <= 1
            /\ (InSubmit(c) \/ err[c].msg \in {SubmitProblem, FailedMessage}) =>
                  creates[c][cur[c]] = 1
            /\ pc[c] = "create" => creates[c][cur[c]] = 0
            /\ (cur[c] = "main" /\ ~args[c].wait /\ creates[c]["main"] = 1) =>
                  polled[c] = << >>
            /\ Cardinality({ w \in 1..Len(wfs) : wfs[w].owner = c }) <= CreateCalls(c))
    /\ [][\A c \in active :
            (polled'[c] # polled[c] /\ polled'[c] # << >>) =>
                (wfs' = wfs /\ pvc' = pvc /\ creates' = creates)]_vars

\* a waited submit of the recipe's workflow that ended in the failure error
C16_Witness ==
    /\ cur[1] = "main"
    /\ args[1].wait
    /\ err[1].msg = FailedMessage
    /\ polled[1] = << "Pending", "Failed" >>
    /\ creates[1]["main"] = 1

\* ---- fetch stage
NotUrl(param) == param.type # "url"

UnsupportedInputs == SelectSeq(recipe.inputs, NotUrl)

\* what _build_fetch_commands raises for the first input it cannot fetch
FetchError ==
    IF UnsupportedInputs[1].type = "pvc_mount" THEN "NotImplementedError"
    ELSE "OgdcWorkflowExecutionError"

NotPvcMount(param) == param.type # "pvc_mount"

\* the sub-commands the fetch stage is specified to hold: a retrieval per url,
\* a copy per file_system path, nothing for a pvc_mount
SpecifiedFetchCommands(params, output_dir) ==
    LET kept == SelectSeq(params, NotPvcMount)
    IN  [i \in 1..Len(kept) |->
            [tool |-> IF kept[i].type = "url" THEN "wget" ELSE "cp",
             source |-> kept[i].value, dir |-> output_dir]]

\* C18 (as stated): the fetch stage holds one sub-command per input, in input
\* order: a retrieval for a url, a copy for a file_system path, and for a
\* pvc_mount no command and no error.
C18_FetchDispatch ==
    pc[1] # "compile" =>
        LET fetch == make_fetch_input_template(recipe, recipe.parallel_enabled)
        IN  /\ fetch.ok
            /\ fetch.commands =
                  SpecifiedFetchCommands(recipe.inputs,
                      get_output_directory(recipe.id, recipe.parallel_enabled))

\* ---- execution order
\* C19: in an execution of a compiled graph by an engine that starts a task
\* only once all its declared dependencies have succeeded, a task has started
\* only if every task of the earlier stages has succeeded.
C19_StageOrder ==
    graph[1].ok =>
        \A i \in 1..Len(G.tasks) :
            G.tasks[i].name \in nodes.started =>
                \A j \in 1..Len(G.tasks) :
                    G.tasks[j].stage < G.tasks[i].stage =>
                        G.tasks[j].name \in nodes.succeeded

\* two command stages of two partitions: one task of the second stage has
\* started, the other one has not
C19_Witness ==
    /\ ParallelCompiled
    /\ G.ok
    /\ NumCommands = 2
    /\ Cardinality(StageTasks(1)) = 2
    /\ \E i \in StageTasks(2) : G.tasks[i].name \in nodes.started
    /\ \E i \in StageTasks(2) : G.tasks[i].name \notin nodes.started

\* ---- partition tasks
PartitionTasks == { i \in 1..Len(G.tasks) : G.tasks[i].kind = "partition" }

\* the parameters recipe-id, cmd-index and partition-id of a partition task
WorkingDirectory(i) == << G.tasks[i].args[2], G.tasks[i].args[4], G.tasks[i].args[3] >>

\* C20: two distinct partition tasks of a parallel graph differ in their task
\* name and in their (recipe id, command index, partition id) parameters.
C20_DistinctPartitionParams ==
    (ParallelCompiled /\ G.ok) =>
        \A i \in PartitionTasks :
            /\ G.tasks[i].args[2] = recipe.id
            /\ \A j \in PartitionTasks :
                 i # j => /\ G.tasks[i].name # G.tasks[j].name
                          /\ WorkingDirectory(i) # WorkingDirectory(j)

\* two command stages of two partitions each: four partition tasks
C20_Witness ==
    /\ ParallelCompiled
    /\ G.ok
    /\ NumCommands = 2
    /\ Cardinality(StageTasks(1)) = 2
    /\ Cardinality(PartitionTasks) = 4

\* ---- temporary output
TemporaryCall(c) == recipe.output = "temporary" /\ ~args[c].overwrite

\* C21: for a recipe with temporary output and overwrite false the publish-state
\* check returns false whatever the destination holds, without any scratch
\* execution; the call is never rejected as already published and goes on to
\* compile the recipe and, if that succeeds, to submit the main workflow.
C21_TemporaryNeverBlocks ==
    \A c \in active :
        TemporaryCall(c) =>
            /\ result[c] = (IF pc[c] = "idle" THEN "unset" ELSE "false")
            /\ creates[c]["check"] = 0
            /\ creates[c]["remove"] = 0
            /\ err[c].kind # "OgdcDataAlreadyPublished"
            /\ pc[c] = "raised" => graph[c] # NoGraph
            /\ (graph[c].ok /\ pc[c] # "create") => creates[c]["main"] = 1

\* the destination held published data when the call began, and the main
\* workflow was submitted all the same
C21_Witness ==
    /\ TemporaryCall(1)
    /\ pvc0[1].exists
    /\ "published" \in pvc0[1].items
    /\ pc[1] = "done"
    /\ MainWorkflowsOf(1) # {}

\* ---- cleanup of scratch executions
\* the delete call of a scratch execution failed and the failure left the call
DeleteFailed(c) ==
    pc[c] = "raised" /\ err[c].kind = "ServiceError" /\ err[c].msg = "delete"

\* C22: a failure of the delete call that cleans up a scratch execution is not
\* propagated: data_already_published still returns its decision and the
\* caller goes on with it.
C22_DeleteFailureNonFatal == \A c \in active : ~DeleteFailed(c)

\* ---- error kinds
AlreadyPublishedMessage == "Data for recipe {} have already been published."

\* the failure condition behind the exception a call raised
ErrorCondition(c) ==
    CASE err[c].msg = SubmitProblem -> "submission"
      [] err[c].msg = FailedMessage -> "execution"
      [] err[c].msg = "compile" /\ UnsupportedInputs # << >> -> "unsupported-input"
      [] err[c].msg = AlreadyPublishedMessage -> "already-published"
      [] OTHER -> "other"

\* C23: a submission failure, an execution failure, an unsupported input and
\* already-published data are raised as four different error types: two calls
\* that failed for two different of these conditions never raised the same
\* type.
C23_DistinctErrorKinds ==
    \A c1 \in active : \A c2 \in active :
        ( /\ pc[c1] = "raised"
          /\ pc[c2] = "raised"
          /\ ErrorCondition(c1) # "other"
          /\ ErrorCondition(c2) # "other"
          /\ ErrorCondition(c1) # ErrorCondition(c2) )
        => err[c1].kind # err[c2].kind

\* ---- concurrent submissions
\* the calls whose main workflow the engine accepted
Proceeded == { c \in active : MainWorkflowsOf(c) # {} }

\* C27: of two calls of submit_ogdc_recipe for the same pvc recipe with
\* overwrite false, both begun while the destination does not exist, at most
\* one passes the check and submits a main workflow.
C27_AtMostOneProceeds ==
    (\A c \in active : pc[c] # "idle" /\ ~args[c].overwrite /\ ~pvc0[c].exists)
        => Cardinality(Proceeded) <= 1

\* ---- recipe id
IdChars == LowerCase \cup Digits \cup {".", "-"}

\* the name in lower case with every space turned into a dash
ExpectedId(name) ==
    [i \in 1..Len(name) |->
        IF name[i] = " " THEN "-"
        ELSE IF name[i] \in UpperCase THEN lower_char(name[i])
        ELSE name[i]]

Waiting(phase) ==
    /\ pc[1] = "wait"
    /\ Len(polled[1]) < MaxPolls
    /\ get_workflow_status(wfname[1]) = phase

\* the wait loop returned to submit_workflow
Returned == pc[1] \in {"submitted", "done"} /\ polled[1] # << >>

\* the wait loop raised the execution error
RaisedFailed == pc[1] = "raised" /\ err[1].msg = FailedMessage

\* C25: once the engine reports Succeeded or Failed (a status it then keeps
\* reporting) wait_for_workflow_completion, and with it submit_workflow with
\* wait=True, terminates: it returns on Succeeded and raises on Failed.
C25_WaitTerminates ==
    /\ Waiting("Succeeded") ~> Returned
    /\ Waiting("Failed") ~> RaisedFailed

\* the loop slept on Pending and Running and then raised on Failed
C25_Witness ==
    /\ RaisedFailed
    /\ polled[1] = << "Pending", "Running", "Failed" >>

\* ---- length of workflow names
\* C26: whatever the recipe id and the suffix, the generate_name is short
\* enough that the name the engine makes of it by appending its five random
\* characters has at most 63 characters.
C26_NameFits ==
    gen.out # NoCall.out =>
        Len(gen.out) + ARGO_GENERATED_SUFFIX_LENGTH <= KUBERNETES_NAME_MAX_LENGTH

\* ---- what the check takes for published data
\* the graph of caller c has the task that publishes to the volume
HasPublishStage(c) ==
    \E i \in 1..Len(graph[c].tasks) : graph[c].tasks[i].kind = "publish-pvc"

\* some main workflow with a publish stage ran to the end
PublishCompleted ==
    \E w \in 1..Len(wfs) :
        /\ wfs[w].kind = "main"
        /\ wfs[w].phase = "Succeeded"
        /\ HasPublishStage(wfs[w].owner)

\* C28: the check reports a pvc recipe as already published only if an earlier
\* execution completed its publish stage; a run that failed before it
\* published, or that only wrote its inputs under the recipe's path, never
\* gets a later submit with overwrite false rejected.
C28_OnlyPublishedBlocks ==
    \A c \in active : result[c] = "true" => PublishCompleted

\* ---- an overwrite that fails
\* the call failed after data_already_published returned and before the engine
\* accepted a main workflow: in the compiler, or in the create call
FailedBeforeMain(c) ==
    /\ pc[c] = "raised"
    /\ graph[c] # NoGraph
    /\ MainWorkflowsOf(c) = {}

\* C29: a call with overwrite true that fails before its main workflow is
\* submitted (the compiler raises, or the create call fails) leaves the
\* destination exactly as it was when the call began.
C29_FailedOverwriteKeepsData ==
    \A c \in active :
        (args[c].overwrite /\ FailedBeforeMain(c)) => pvc = pvc0[c]

\* ---- scratch executions left behind
CheckFailedMessage == "Failed to check if data have been published"

ScratchOf(c) ==
    { w \in 1..Len(wfs) : wfs[w].owner = c /\ wfs[w].kind \in {"remove", "check"} }

\* data_already_published returned, or raised because its scratch execution
\* failed or had no result parameter
PublishStateSettled(c) ==
    \/ result[c] # "unset"
    \/ pc[c] = "raised" /\ err[c].msg \in {FailedMessage, CheckFailedMessage}

\* C30: when data_already_published returns or raises, every scratch execution
\* it created has been deleted from the engine, also when the execution ended
\* as Failed and when its result parameter was not found.
C30_ScratchDeleted ==
    \A c \in active :
        PublishStateSettled(c) => \A w \in ScratchOf(c) : wfs[w].deleted

====
